---- MODULE Spec2Model ----
(***************************************************************************)
(* A model of the rust-bcf reader: the typed-value codec (parser.rs), the  *)
(* two record decoders (eager: record_from_length, lazy: the accessors of  *)
(* the byte-retaining record) and the stream drivers (reader.rs).          *)
(*                                                                         *)
(* Conventions.                                                            *)
(*  - A byte is an integer 0..255; a buffer is a sequence of bytes.  A     *)
(*    parser takes a buffer b and the number i of bytes already consumed   *)
(*    and returns [st, v, i]: st = "ok" with the value and the new offset, *)
(*    st = "err" for an Err the function returns to its caller, and        *)
(*    st = "panic" for a panic (assert!, unwrap, index out of range).      *)
(*  - An f32 is kept as its four little-endian bytes (its bit pattern).    *)
(*  - A usize obtained by `as usize` from a signed integer is kept as the  *)
(*    signed integer (its two's complement reading), so that a negative    *)
(*    value stands for the huge usize it wraps to: it equals no small      *)
(*    index and is out of range of every table.                            *)
(***************************************************************************)
EXTENDS Integers, Sequences, FiniteSets, TLC

VARIABLES kind, header, wire, stream, inner_pos, calls, record_buf, last, records,
          spans, call

vars == <<kind, header, wire, stream, inner_pos, calls, record_buf, last, records,
          spans, call>>

----------------------------------------------------------------------------
(* Results of parsers.                                                     *)

Ok(v, i) == [st |-> "ok", v |-> v, i |-> i]

Err(i) == [st |-> "err", v |-> <<>>, i |-> i]

Panic(i) == [st |-> "panic", v |-> <<>>, i |-> i]

\* `r?` followed by more code, or `r.unwrap()`: what a failure of r becomes.
Unwrap(r) == IF r.st = "ok" THEN r ELSE Panic(r.i)

\* `let x = e?; F(x)`: e is evaluated once; when it failed its failure is the
\* result, and when it succeeded F continues from its value.
AndThen(e, F(_)) ==
    CHOOSE r \in {IF x.st # "ok" THEN x ELSE F(x) : x \in {e}} : TRUE

SubSeqFrom(b, i) == SubSeq(b, i + 1, Len(b))

Take(b, i, n) == SubSeq(b, i + 1, i + n)

----------------------------------------------------------------------------
\* Little-endian numbers of nom::number::streaming: Incomplete, an Err, when
\* fewer bytes are left than the width.

Signed8(x) == IF x >= 128 THEN x - 256 ELSE x

le_u8(b, i) == IF Len(b) - i < 1 THEN Err(i) ELSE Ok(b[i + 1], i + 1)

\* A reading of the byte as u8: the widening would zero-extend.
le_i8_zero_extended(b, i) == le_u8(b, i)

le_i8(b, i) == IF Len(b) - i < 1 THEN Err(i) ELSE Ok(Signed8(b[i + 1]), i + 1)

le_u16(b, i) ==
    IF Len(b) - i < 2 THEN Err(i) ELSE Ok(b[i + 1] + 256 * b[i + 2], i + 2)

le_i16(b, i) ==
    IF Len(b) - i < 2 THEN Err(i)
    ELSE Ok(b[i + 1] + 256 * Signed8(b[i + 2]), i + 2)

le_u24(b, i) ==
    IF Len(b) - i < 3 THEN Err(i)
    ELSE Ok(b[i + 1] + 256 * b[i + 2] + 65536 * b[i + 3], i + 3)

le_u32(b, i) ==
    IF Len(b) - i < 4 THEN Err(i)
    ELSE Ok(b[i + 1] + 256 * b[i + 2] + 65536 * b[i + 3] + 16777216 * b[i + 4],
            i + 4)

le_i32(b, i) ==
    IF Len(b) - i < 4 THEN Err(i)
    ELSE Ok(b[i + 1] + 256 * b[i + 2] + 65536 * b[i + 3]
              + 16777216 * Signed8(b[i + 4]), i + 4)

le_f32(b, i) == IF Len(b) - i < 4 THEN Err(i) ELSE Ok(Take(b, i, 4), i + 4)

----------------------------------------------------------------------------
(* types.rs                                                                *)

TypeKinds == {0, 1, 2, 3, 5, 7}

KMissing == 0

KInt8 == 1

KInt16 == 2

KInt32 == 3

KFloat32 == 5

KString == 7

END_OF_VECTOR_INT_8 == 129

\* 0x7F800001, little-endian
MISSING_FLOAT == <<1, 0, 128, 127>>

\* 0x7FC00000, little-endian
NAN_FLOAT == <<0, 0, 192, 127>>

\* 0x7F800002, 0x8001 and 0x80000001, little-endian
END_OF_VECTOR_FLOAT_32 == <<2, 0, 128, 127>>

END_OF_VECTOR_INT_16 == <<1, 128>>

END_OF_VECTOR_INT_32 == <<1, 0, 0, 128>>

TVMissing == [t |-> "Missing", v |-> <<>>]

TVInt32(v) == [t |-> "Int32", v |-> v]

TVFloat32(v) == [t |-> "Float32", v |-> v]

TVUString(v) == [t |-> "UString", v |-> v]

RawVec(t, data) == [t |-> t, data |-> data]

----------------------------------------------------------------------------
(* parser.rs: the type codec                                               *)

read_uint(k, b, i) ==
    IF k \notin {KInt8, KInt16, KInt32} THEN Panic(i)
    ELSE IF k = KInt8 THEN le_u8(b, i)
    ELSE IF k = KInt16 THEN le_u16(b, i)
    ELSE le_u32(b, i)

RECURSIVE type_descriptor(_, _)
type_descriptor(b, i) ==
    AndThen(le_u8(b, i), LAMBDA byte :
      LET type_kind == byte.v % 16
          high == (byte.v \div 16) % 16
      IN AndThen(IF high = 15
                 THEN AndThen(type_descriptor(b, byte.i), LAMBDA inner :
                        IF inner.v.num_elements # 1 THEN Panic(inner.i)
                        ELSE read_uint(inner.v.kind, b, inner.i))
                 ELSE Ok(high, byte.i),
                 LAMBDA num :
                   IF type_kind \notin TypeKinds THEN Panic(num.i)
                   ELSE Ok([kind |-> type_kind, num_elements |-> num.v], num.i)))

typed_string(b, i) ==
    AndThen(type_descriptor(b, i), LAMBDA td :
      IF td.v.kind # KString THEN Panic(td.i)
      ELSE IF Len(b) - td.i < td.v.num_elements THEN Err(td.i)
      ELSE Ok(Take(b, td.i, td.v.num_elements), td.i + td.v.num_elements))

le_int(k, b, i) ==
    IF k = KInt8 THEN le_i8(b, i) ELSE IF k = KInt16 THEN le_i16(b, i) ELSE le_i32(b, i)

\* many_m_n(n, n, p): p applied n times, an Err of p being the Err of the whole
RECURSIVE many_ints(_, _, _, _)
many_ints(k, n, b, i) ==
    IF n <= 0 THEN Ok(<<>>, i)
    ELSE AndThen(le_int(k, b, i), LAMBDA x :
         AndThen(many_ints(k, n - 1, b, x.i), LAMBDA r : Ok(<<x.v>> \o r.v, r.i)))

RECURSIVE many_floats(_, _, _)
many_floats(n, b, i) ==
    IF n <= 0 THEN Ok(<<>>, i)
    ELSE AndThen(le_f32(b, i), LAMBDA x :
         AndThen(many_floats(n - 1, b, x.i), LAMBDA r : Ok(<<x.v>> \o r.v, r.i)))

RECURSIVE many_strings(_, _, _)
many_strings(n, b, i) ==
    IF n <= 0 THEN Ok(<<>>, i)
    ELSE AndThen(typed_string(b, i), LAMBDA x :
         AndThen(many_strings(n - 1, b, x.i), LAMBDA r : Ok(<<x.v>> \o r.v, r.i)))

typed_int(b, i) ==
    AndThen(type_descriptor(b, i), LAMBDA td :
      IF td.v.num_elements # 1 THEN Panic(td.i)
      ELSE IF td.v.kind \notin {KInt8, KInt16, KInt32} THEN Panic(td.i)
      ELSE le_int(td.v.kind, b, td.i))

typed_ints(b, i) ==
    AndThen(type_descriptor(b, i), LAMBDA td :
      IF td.v.kind = KMissing THEN Ok(<<>>, td.i)
      ELSE IF td.v.kind \in {KInt8, KInt16, KInt32}
           THEN many_ints(td.v.kind, td.v.num_elements, b, td.i)
      ELSE Panic(td.i))

\* The size in bytes of one element of a kind (std::mem::size_of).
ElemSize(k) ==
    IF k = KInt8 \/ k = KString THEN 1
    ELSE IF k = KInt16 THEN 2
    ELSE 4

\* The lazy decoder's first step: the payload bytes, tagged.  A Float32
\* payload is tagged Int32 (parser.rs:151-154); split_at panics when the
\* payload is longer than what is left.
raw_vec_from_td(td, b, i) ==
    LET n == td.num_elements IN
    IF td.kind = KMissing THEN Ok(RawVec("Missing", <<>>), i)
    ELSE IF n < 0 \/ ElemSize(td.kind) * n > Len(b) - i THEN Panic(i)
    ELSE LET data == Take(b, i, ElemSize(td.kind) * n)
             j == i + ElemSize(td.kind) * n
         IN IF td.kind = KInt8 THEN Ok(RawVec("Int8", data), j)
            ELSE IF td.kind = KInt16 THEN Ok(RawVec("Int16", data), j)
            ELSE IF td.kind = KInt32 THEN Ok(RawVec("Int32", data), j)
            ELSE IF td.kind = KFloat32 THEN Ok(RawVec("Int32", data), j)
            ELSE Ok(RawVec("UString", data), j)

\* The eager decoder's typed value.
typed_vec_from_td(td, b, i) ==
    LET n == td.num_elements IN
    IF td.kind = KMissing THEN Ok(TVMissing, i)
    ELSE IF td.kind \in {KInt8, KInt16, KInt32}
         THEN AndThen(many_ints(td.kind, n, b, i), LAMBDA r : Ok(TVInt32(r.v), r.i))
    ELSE IF td.kind = KFloat32
         THEN AndThen(many_floats(n, b, i), LAMBDA r : Ok(TVFloat32(r.v), r.i))
    ELSE IF n > Len(b) - i THEN Panic(i)
    ELSE Ok(TVUString(Take(b, i, n)), i + n)

typed_vec(b, i) ==
    AndThen(type_descriptor(b, i), LAMBDA td : typed_vec_from_td(td.v, b, td.i))

\* split_at_position_complete(|b| b == END_OF_VECTOR_INT_8): the bytes before
\* the first end-of-vector byte, all of them when there is none.
RECURSIVE BeforeEndOfVector(_)
BeforeEndOfVector(data) ==
    IF data = <<>> \/ data[1] = END_OF_VECTOR_INT_8 THEN <<>>
    ELSE <<data[1]>> \o BeforeEndOfVector(Tail(data))

\* many0 of a complete parser over the whole slice: the elements that fit,
\* and the offset where it stops.
many0_ints(k, data) ==
    many_ints(k, Len(data) \div ElemSize(k), data, 0)

\* impl From<RawVec> for TypedVec: the lazy decoder's second step.  The
\* assert!(input.is_empty()) after many0 panics on bytes left over.
TypedVecFromRaw(raw) ==
    IF raw.t = "Missing" THEN Ok(TVMissing, 0)
    ELSE IF raw.t = "Int8"
         THEN AndThen(many0_ints(KInt8, BeforeEndOfVector(raw.data)), LAMBDA r :
                Ok(TVInt32(r.v), r.i))
    ELSE IF raw.t = "Int16"
         THEN AndThen(many0_ints(KInt16, raw.data), LAMBDA r :
                IF r.i # Len(raw.data) THEN Panic(r.i) ELSE Ok(TVInt32(r.v), r.i))
    ELSE IF raw.t = "Int32"
         THEN AndThen(many0_ints(KInt32, raw.data), LAMBDA r :
                IF r.i # Len(raw.data) THEN Panic(r.i) ELSE Ok(TVInt32(r.v), r.i))
    ELSE IF raw.t = "Float32"
         THEN AndThen(many_floats(Len(raw.data) \div 4, raw.data, 0), LAMBDA r :
                IF r.i # Len(raw.data) THEN Panic(r.i) ELSE Ok(TVFloat32(r.v), r.i))
    ELSE Ok(TVUString(raw.data), Len(raw.data))

\* The typed integer key that opens an INFO pair (the same lines in
\* raw_info_pair and info_pair).
info_key(b, i) ==
    AndThen(type_descriptor(b, i), LAMBDA td :
      IF td.v.num_elements # 1 THEN Panic(td.i)
      ELSE IF td.v.kind \notin {KInt8, KInt16, KInt32} THEN Panic(td.i)
      ELSE le_int(td.v.kind, b, td.i))

raw_info_pair(b, i) ==
    AndThen(info_key(b, i), LAMBDA key :
    AndThen(type_descriptor(b, key.i), LAMBDA td :
    AndThen(raw_vec_from_td(td.v, b, td.i), LAMBDA data :
      Ok([key |-> key.v, data |-> data.v], data.i))))

info_pair(b, i) ==
    AndThen(info_key(b, i), LAMBDA key :
    AndThen(typed_vec(b, key.i), LAMBDA data :
      Ok([key |-> key.v, data |-> data.v], data.i)))

\* info(n_info, input): many_m_n(n_info, n_info, info_pair)
RECURSIVE info(_, _, _)
info(n, b, i) ==
    IF n <= 0 THEN Ok(<<>>, i)
    ELSE AndThen(info_pair(b, i), LAMBDA x :
         AndThen(info(n - 1, b, x.i), LAMBDA r : Ok(<<x.v>> \o r.v, r.i)))

\* The n_sample payloads of one FORMAT field, all of the type td.
RECURSIVE sample_values(_, _, _, _)
sample_values(td, n, b, i) ==
    IF n <= 0 THEN Ok(<<>>, i)
    ELSE AndThen(typed_vec_from_td(td, b, i), LAMBDA x :
         AndThen(sample_values(td, n - 1, b, x.i), LAMBDA r : Ok(<<x.v>> \o r.v, r.i)))

RECURSIVE raw_sample_values(_, _, _, _)
raw_sample_values(td, n, b, i) ==
    IF n <= 0 THEN Ok(<<>>, i)
    ELSE AndThen(raw_vec_from_td(td, b, i), LAMBDA x :
         AndThen(raw_sample_values(td, n - 1, b, x.i), LAMBDA r :
           Ok(<<x.v>> \o r.v, r.i)))

genotype_field(n_sample, b, i) ==
    AndThen(typed_int(b, i), LAMBDA key :
    AndThen(type_descriptor(b, key.i), LAMBDA td :
    AndThen(sample_values(td.v, n_sample, b, td.i), LAMBDA vals :
      Ok([key |-> key.v, data |-> vals.v], vals.i))))

raw_genotype_field(n_sample, b, i) ==
    AndThen(typed_int(b, i), LAMBDA key :
    AndThen(type_descriptor(b, key.i), LAMBDA td :
    AndThen(raw_sample_values(td.v, n_sample, b, td.i), LAMBDA vals :
      Ok([key |-> key.v, data |-> vals.v], vals.i))))

\* many_m_n(n_fmt, n_fmt, |d| genotype_field(n_sample, d))
RECURSIVE genotype_fields(_, _, _, _)
genotype_fields(n_fmt, n_sample, b, i) ==
    IF n_fmt <= 0 THEN Ok(<<>>, i)
    ELSE AndThen(genotype_field(n_sample, b, i), LAMBDA x :
         AndThen(genotype_fields(n_fmt - 1, n_sample, b, x.i), LAMBDA r :
           Ok(<<x.v>> \o r.v, r.i)))

----------------------------------------------------------------------------
(* The fixed prefix of the shared block and the two decoders.              *)

\* Byte offsets of the fixed prefix (record/lazy.rs:25-34 and the slices of
\* n_alleles, n_info and n_fmt_n_sample).
CHROM_START == 0

POS_START == 4

QUAL_START == 12

N_INFO_START == 16

N_ALLELE_START == 18

N_SAMPLE_START == 20

N_FMT_START == 23

ID_START == 24

TYPE_DESCRIPTOR_LENGTH == 1

SomeOf(v) == [some |-> TRUE, val |-> v]

None == [some |-> FALSE, val |-> <<>>]

\* f32::is_nan on the bit pattern: exponent all ones, mantissa not zero.
IsNan(q) == /\ q[4] % 128 = 127
            /\ q[3] >= 128
            /\ (q[3] % 128 # 0 \/ q[2] # 0 \/ q[1] # 0)

\* qual.to_bits() & 0b0000_0000_0100_0000_0000_0000_0000_0000 != 0
QuietBit(q) == (q[3] \div 64) % 2 = 1

\* The test both decoders apply to the qual bits; the lazy record's further
\* branch for NAN_FLOAT (record.rs:267) gives Some of the same bits.
QualOf(q) ==
    IF (IsNan(q) /\ QuietBit(q)) \/ q = MISSING_FLOAT THEN None
    ELSE IF q = NAN_FLOAT THEN SomeOf(NAN_FLOAT)
    ELSE SomeOf(q)

\* The eager decoder.  It reads shared and indiv as one run of bytes; a count
\* that is negative as i16 is a huge usize, on which many_m_n panics.
record_from_length(l_shared, l_indiv, b) ==
    IF Len(b) < ID_START THEN Err(0)
    ELSE
      LET n_info == le_i16(b, N_INFO_START).v
          n_allele == le_i16(b, N_ALLELE_START).v
          n_sample == le_u24(b, N_SAMPLE_START).v
          n_fmt == le_u8(b, N_FMT_START).v
      IN
      AndThen(typed_string(b, ID_START), LAMBDA id :
      AndThen(IF n_allele < 0 THEN Panic(id.i) ELSE many_strings(n_allele, b, id.i),
              LAMBDA alleles :
      AndThen(typed_ints(b, alleles.i), LAMBDA filters :
      AndThen(IF n_info < 0 THEN Panic(filters.i) ELSE info(n_info, b, filters.i),
              LAMBDA inf :
      AndThen(IF l_indiv > 0 THEN genotype_fields(n_fmt, n_sample, b, inf.i)
              ELSE Ok(<<>>, inf.i),
              LAMBDA fmt :
        IF Len(alleles.v) = 0 THEN Panic(fmt.i)
        ELSE Ok([chrom |-> le_i32(b, CHROM_START).v,
                 pos |-> le_i32(b, POS_START).v,
                 id |-> SomeOf(id.v),
                 ref_allele |-> alleles.v[1],
                 alt_alleles |-> Tail(alleles.v),
                 qual |-> QualOf(le_f32(b, QUAL_START).v),
                 filter |-> filters.v,
                 info |-> inf.v,
                 format |-> IF l_indiv > 0 THEN SomeOf(fmt.v) ELSE None],
                fmt.i))))))

\* RawBcfRecord::new: the bytes are kept; the one derived offset is the fixed
\* prefix plus one descriptor byte plus the id's num_elements.
RawBcfRecordNew(shared, format) ==
    IF Len(shared) < ID_START THEN Panic(0)
    ELSE AndThen(Unwrap(type_descriptor(shared, ID_START)), LAMBDA td :
           IF td.v.kind # KString THEN Panic(td.i)
           ELSE Ok([shared |-> shared,
                    format |-> format,
                    allele_start_bytepos |->
                        ID_START + TYPE_DESCRIPTOR_LENGTH + td.v.num_elements],
                   td.i))

\* A split that takes indiv from the start of the buffer, not after shared.
raw_record_from_length_overlapping(l_shared, l_indiv, b) ==
    IF l_shared > Len(b) \/ l_indiv > Len(b) - l_shared THEN Panic(0)
    ELSE RawBcfRecordNew(Take(b, 0, l_shared), Take(b, 0, l_indiv))

raw_record_from_length(l_shared, l_indiv, b) ==
    IF l_shared > Len(b) \/ l_indiv > Len(b) - l_shared THEN Panic(0)
    ELSE RawBcfRecordNew(Take(b, 0, l_shared), Take(b, l_shared, l_indiv))

n_alleles(r) == le_i16(r.shared, N_ALLELE_START).v

n_info(r) == le_i16(r.shared, N_INFO_START).v

n_fmt_n_sample(r) ==
    <<le_u8(r.shared, N_FMT_START).v, le_u24(r.shared, N_SAMPLE_START).v>>

\* alleles(): the n_allele typed strings from the allele offset, and the byte
\* position after them.
alleles(r) ==
    IF r.allele_start_bytepos > Len(r.shared) \/ n_alleles(r) < 0 THEN Panic(0)
    ELSE Unwrap(many_strings(n_alleles(r), r.shared, r.allele_start_bytepos))

id(r) == Unwrap(typed_string(r.shared, ID_START))

chrom(r, h) ==
    LET idx == le_i32(r.shared, CHROM_START).v IN
    IF idx < 0 \/ idx >= Len(h.contigs) THEN Panic(0)
    ELSE Ok(h.contigs[idx + 1], 0)

record_pos(r) == Ok(le_i32(r.shared, POS_START).v, 0)

ref_allele(r) ==
    IF r.allele_start_bytepos > Len(r.shared) THEN Panic(0)
    ELSE Unwrap(typed_string(r.shared, r.allele_start_bytepos))

alt_alleles(r) ==
    IF r.allele_start_bytepos > Len(r.shared) THEN Panic(0)
    ELSE AndThen(Unwrap(typed_string(r.shared, r.allele_start_bytepos)), LAMBDA first :
           IF n_alleles(r) - 1 < 0 THEN Panic(first.i)
           ELSE Unwrap(many_strings(n_alleles(r) - 1, r.shared, first.i)))

qual(r) == Ok(QualOf(le_f32(r.shared, QUAL_START).v), 0)

\* The names of the FILTER lines at the given header positions.
RECURSIVE filter_names(_, _)
filter_names(ids, h) ==
    IF ids = <<>> THEN Ok(<<>>, 0)
    ELSE IF ids[1] < 0 \/ ids[1] >= Len(h.filters) THEN Panic(0)
    ELSE AndThen(filter_names(Tail(ids), h), LAMBDA r :
           Ok(<<h.filters[ids[1] + 1]>> \o r.v, 0))

\* filters(): header.meta.get_vec("FILTER").unwrap() panics on a header with
\* no FILTER line.
filters(r, h) ==
    AndThen(alleles(r), LAMBDA al :
    AndThen(Unwrap(typed_ints(r.shared, al.i)), LAMBDA ids :
      IF Len(h.filters) = 0 THEN Panic(ids.i) ELSE filter_names(ids.v, h)))

\* The lazy walk of info(): pairs are decoded one at a time and the walk
\* stops at the first whose key is the tag's idx.
RECURSIVE info_walk(_, _, _, _, _)
info_walk(b, i, n, defined, idx) ==
    IF n = 0 THEN Ok(None, i)
    ELSE AndThen(Unwrap(raw_info_pair(b, i)), LAMBDA pair :
           IF defined /\ idx = pair.v.key
           THEN AndThen(Unwrap(TypedVecFromRaw(pair.v.data)), LAMBDA tv :
                  Ok(SomeOf(tv.v), pair.i))
           ELSE info_walk(b, pair.i, n - 1, defined, idx))

record_info(r, h, tag) ==
    AndThen(alleles(r), LAMBDA al :
    AndThen(Unwrap(typed_ints(r.shared, al.i)), LAMBDA ids :
      info_walk(r.shared, ids.i, n_info(r),
                tag \in DOMAIN h.info_tag_to_offset,
                IF tag \in DOMAIN h.info_tag_to_offset
                THEN h.info_tag_to_offset[tag] ELSE 0)))

has_flag(r, h, tag) ==
    AndThen(record_info(r, h, tag), LAMBDA v : Ok(v.v.some, v.i))

\* data.into_iter().map(Into::into).collect_vec(): each sample's RawVec
\* converted in sample order.
RECURSIVE typed_samples(_)
typed_samples(raws) ==
    IF raws = <<>> THEN Ok(<<>>, 0)
    ELSE AndThen(Unwrap(TypedVecFromRaw(raws[1])), LAMBDA x :
         AndThen(typed_samples(Tail(raws)), LAMBDA r : Ok(<<x.v>> \o r.v, 0)))

\* The lazy walk of format(): fields are decoded one at a time and the walk
\* stops at the first whose key is the tag's idx.
RECURSIVE format_walk(_, _, _, _, _, _)
format_walk(b, i, n, n_sample, defined, idx) ==
    IF n = 0 THEN Ok(None, i)
    ELSE AndThen(Unwrap(raw_genotype_field(n_sample, b, i)), LAMBDA fmt :
           IF defined /\ idx = fmt.v.key
           THEN AndThen(typed_samples(fmt.v.data), LAMBDA tv :
                  Ok(SomeOf(tv.v), fmt.i))
           ELSE format_walk(b, fmt.i, n - 1, n_sample, defined, idx))

record_format(r, h, tag) ==
    IF r.format = <<>> THEN Ok(None, 0)
    ELSE format_walk(r.format, 0, n_fmt_n_sample(r)[1], n_fmt_n_sample(r)[2],
                     tag \in DOMAIN h.format_tag_to_offset,
                     IF tag \in DOMAIN h.format_tag_to_offset
                     THEN h.format_tag_to_offset[tag] ELSE 0)

\* A decoding that forgets that the remaining bits are allele_index + 1.
GenotypeAlleleFrom_no_offset(encoded) ==
    LET bit == encoded % 2 IN
    IF encoded = 0 THEN [g |-> "UnphasedMissing", i |-> 0]
    ELSE IF encoded = 1 THEN [g |-> "PhasedMissing", i |-> 0]
    ELSE IF bit = 1 THEN [g |-> "Phased", i |-> encoded \div 2]
    ELSE [g |-> "Unphased", i |-> encoded \div 2]

\* impl From<i32> for GenotypeAllele: the match on (encoded, encoded & 1).
GenotypeAlleleFrom(encoded) ==
    LET bit == encoded % 2 IN
    IF encoded = 0 /\ bit = 0 THEN [g |-> "UnphasedMissing", i |-> 0]
    ELSE IF encoded = 1 /\ bit = 1 THEN [g |-> "PhasedMissing", i |-> 0]
    ELSE IF bit = 1 THEN [g |-> "Phased", i |-> (encoded \div 2) - 1]
    ELSE IF bit = 0 THEN [g |-> "Unphased", i |-> (encoded \div 2) - 1]
    ELSE [g |-> "panic", i |-> 0]

\* GenotypeAllele::index
index(a) == IF a.g \in {"Unphased", "Phased"} THEN SomeOf(a.i) ELSE None

\* genotypes(): format(b"GT"), an empty list when absent; integer() of a
\* value that is not an Int32 list is unreachable!().
genotypes(r, h) ==
    AndThen(record_format(r, h, "GT"), LAMBDA f :
      LET gts == IF f.v.some THEN f.v.val ELSE <<>> IN
      IF \E s \in 1..Len(gts) : gts[s].t # "Int32" THEN Panic(0)
      ELSE IF \E s \in 1..Len(gts) : \E k \in 1..Len(gts[s].v) :
                 GenotypeAlleleFrom(gts[s].v[k]).g = "panic"
           THEN Panic(0)
      ELSE Ok([s \in 1..Len(gts) |->
                 [k \in 1..Len(gts[s].v) |-> GenotypeAlleleFrom(gts[s].v[k])]], 0))

----------------------------------------------------------------------------
(* Inputs: byte streams built from described records.  The description of  *)
(* each framed record is kept in `wire`, beside the bytes in `stream`.     *)

MaxRecords == 2

MaxCalls == 3

LE16(n) == <<n % 256, (n \div 256) % 256>>

LE24(n) == <<n % 256, (n \div 256) % 256, (n \div 65536) % 256>>

LE32(n) == <<n % 256, (n \div 256) % 256, (n \div 65536) % 256, (n \div 16777216) % 256>>

RECURSIVE Flatten(_)
Flatten(ss) == IF ss = <<>> THEN <<>> ELSE ss[1] \o Flatten(Tail(ss))

\* A type descriptor byte; a count of 15 or more follows as a typed Int8.
EncTD(k, n) ==
    IF n < 15 THEN <<16 * n + k>> ELSE <<16 * 15 + k, 16 * 1 + KInt8, n>>

EncString(str) == EncTD(KString, Len(str)) \o str

\* The FILTER vector: the Missing descriptor alone, or a typed vector of
\* Int8 or Int16 indices.
EncFilter(k, f) ==
    IF k = KMissing THEN <<KMissing>>
    ELSE EncTD(k, Len(f))
           \o Flatten([j \in 1..Len(f) |->
                  IF k = KInt8 THEN <<f[j] % 256>> ELSE LE16(f[j] % 65536)])

\* One INFO pair, or the key and descriptor of one FORMAT field followed by
\* the payloads of its samples.
EncField(p) == <<16 * 1 + KInt8, p.key>> \o EncTD(p.kind, p.n) \o p.payload

EncShared(w) ==
    LE32(w.chrom) \o LE32(w.pos) \o LE32(1) \o w.qual
      \o LE16(Len(w.infos)) \o LE16(Len(w.alleles))
      \o LE24(w.n_sample) \o <<Len(w.fmts)>>
      \o EncString(w.id)
      \o Flatten([k \in 1..Len(w.alleles) |-> EncString(w.alleles[k])])
      \o EncFilter(w.filter_kind, w.filters)
      \o Flatten([k \in 1..Len(w.infos) |-> EncField(w.infos[k])])

EncIndiv(w) == Flatten([k \in 1..Len(w.fmts) |-> EncField(w.fmts[k])])

Frame(w) ==
    LE32(Len(EncShared(w))) \o LE32(Len(EncIndiv(w))) \o EncShared(w) \o EncIndiv(w)

\* 50.0, +infinity, a signalling NaN (0x7F800002) and a negative quiet NaN
Quals == {<<0, 0, 72, 66>>, MISSING_FLOAT, NAN_FLOAT, <<0, 0, 128, 127>>,
          <<2, 0, 128, 127>>, <<0, 0, 192, 255>>}

ShortId == <<105, 100>>

\* Fifteen bytes, "rs1234567890123": the length no longer fits the descriptor
LongId == <<114, 115, 49, 50, 51, 52, 53, 54, 55, 56, 57, 48, 49, 50, 51>>

\* Fifteen bytes again, the fourteenth being "7" (0x37)
LongId7 == <<114, 115, 49, 50, 51, 52, 53, 54, 55, 56, 57, 48, 49, 55, 65>>

Ids == {<<>>, ShortId, LongId, LongId7}

AlleleLists == {<< <<71>> >>, << <<71>>, <<65>> >>, << <<71>>, <<65>>, <<67, 84>> >>}

Field(key, k, n, payload) == [key |-> key, kind |-> k, n |-> n, payload |-> payload]

\* Keys are the idx values of TheHeader below.
InfoLists ==
    { <<>>,
      << Field(1, KInt8, 1, <<1>>) >>,
      << Field(1, KMissing, 0, <<>>) >>,
      << Field(2, KInt8, 1, <<255>>) >>,
      << Field(3, KInt16, 2, <<1, 0, 254, 255>>) >>,
      << Field(3, KInt32, 2, <<1, 0, 0, 0, 254, 255, 255, 255>>) >>,
      << Field(3, KInt8, 2, <<5, 129>>) >>,
      << Field(4, KFloat32, 1, <<0, 0, 0, 63>>) >>,
      << Field(5, KFloat32, 2, <<0, 0, 0, 63, 0, 0, 128, 63>>) >>,
      << Field(6, KString, 3, <<83, 116, 114>>) >>,
      << Field(2, KInt8, 1, <<7>>), Field(1, KInt8, 1, <<1>>),
         Field(2, KInt8, 1, <<9>>) >> }

\* FORMAT fields of two samples; the payload holds the samples back to back.
\* Keys are the idx values of TheHeader below: GT, DP and GQ.
FmtLists ==
    { << Field(1, KInt8, 2, <<2, 4, 0, 5>>) >>,
      << Field(2, KInt16, 1, <<21, 5, 255, 255>>),
         Field(1, KInt8, 2, <<2, 129, 1, 3>>) >>,
      << Field(3, KFloat32, 1, <<0, 0, 0, 63, 0, 0, 128, 63>>) >>,
      << Field(1, KInt8, 1, <<4, 255>>), Field(1, KInt8, 1, <<2, 2>>) >>,
      << Field(2, KMissing, 0, <<>>) >>,
      << Field(1, KInt16, 2, <<2, 0, 1, 128, 4, 0, 6, 0>>) >>,
      << Field(2, KInt32, 2, <<7, 0, 0, 0, 1, 0, 0, 128, 1, 0, 0, 128, 1, 0, 0, 128>>) >>,
      << Field(3, KFloat32, 2, <<0, 0, 0, 63, 2, 0, 128, 127, 0, 0, 128, 63, 0, 0, 0, 64>>) >>,
      << Field(2, KInt8, 3, <<7, 129, 129, 129, 129, 129>>) >> }

BaseWire ==
    [chrom |-> 0, pos |-> 5, qual |-> <<0, 0, 72, 66>>, id |-> ShortId,
     alleles |-> << <<71>>, <<65>> >>, filter_kind |-> KInt8, filters |-> <<0>>,
     infos |-> <<>>,
     n_sample |-> 0, fmts |-> <<>>]

\* FILTER vectors: Missing, of zero elements, of one and of two indices in
\* either width, and with an index the header does not have.
FilterLists ==
    { <<KMissing, <<>> >>, <<KInt8, <<>> >>, <<KInt8, <<1>> >>, <<KInt8, <<1, 0>> >>,
      <<KInt16, <<1, 1>> >>, <<KInt8, <<2>> >>, <<KInt16, <<0, 300>> >>,
      <<KInt8, <<-1>> >> }

\* Contig references: the second contig, and two that the header does not
\* have.
Chroms == {1, 2, -1}

\* Records that vary the FILTER vector or the contig of the base record.
FilterWires ==
    {[BaseWire EXCEPT !.filter_kind = f[1], !.filters = f[2]] : f \in FilterLists}
      \cup {[BaseWire EXCEPT !.chrom = c] : c \in Chroms}

\* Records that differ in their framing lengths, for streams of several.
BasicWires ==
    { BaseWire,
      [BaseWire EXCEPT !.chrom = 1, !.id = <<>>, !.alleles = << <<71>> >>,
                       !.filter_kind = KMissing, !.filters = <<>>],
      [BaseWire EXCEPT !.n_sample = 1,
                       !.fmts = << Field(1, KInt8, 1, <<3>>) >>] }

\* Single records that vary one part of the base record at a time, the id
\* with the alleles and with the INFO pairs.
RichWires ==
    {[BaseWire EXCEPT !.qual = q] : q \in Quals}
      \cup {[BaseWire EXCEPT !.id = i, !.alleles = a] : i \in Ids, a \in AlleleLists}
      \cup {[BaseWire EXCEPT !.id = i, !.infos = f] : i \in Ids, f \in InfoLists}
      \cup {[BaseWire EXCEPT !.n_sample = 2, !.fmts = f] : f \in FmtLists}
      \cup FilterWires

\* What may follow the last whole frame: nothing, a partial length prefix, a
\* whole prefix whose record is cut short, a frame too short for a record.
Tails ==
    { <<>>, <<9>>, <<9, 0, 0, 0, 0, 0, 0>>,
      LE32(30) \o LE32(0) \o <<0, 0, 0>>,
      LE32(2) \o LE32(0) \o <<0, 0>> }

SeqsUpTo(S, n) == UNION {[1..k -> S] : k \in 0..n}

TheHeader ==
    [contigs |-> <<"chr1", "chr2">>,
     filters |-> <<"PASS", "q10">>,
     info_tag_to_offset |->
        [t \in {"FLAG", "INT", "INT2", "FLOAT", "FLOAT2", "STRING"} |->
            CASE t = "FLAG" -> 1 [] t = "INT" -> 2 [] t = "INT2" -> 3
              [] t = "FLOAT" -> 4 [] t = "FLOAT2" -> 5 [] t = "STRING" -> 6],
     format_tag_to_offset |->
        [t \in {"GT", "DP", "GQ"} |->
            CASE t = "GT" -> 1 [] t = "DP" -> 2 [] t = "GQ" -> 3],
     info |-> [x \in 1..6 |-> <<"FLAG", "INT", "INT2", "FLOAT", "FLOAT2", "STRING">>[x]],
     format |-> [x \in 1..3 |-> <<"GT", "DP", "GQ">>[x]]]

\* The header of a file that declares no FILTER line.
HeaderWithoutFilters == [TheHeader EXCEPT !.filters = <<>>]

\* Tags asked of a record: those of the header and one it does not define.
Tags == {"FLAG", "INT", "INT2", "FLOAT", "FLOAT2", "STRING", "NONE"}

\* FORMAT tags asked of a record.
FmtTags == {"GT", "DP", "GQ", "NONE"}

----------------------------------------------------------------------------
(* reader.rs: the stream drivers                                           *)

NoCall == [op |-> "none", rec |-> 0, tag |-> "", st |-> "ok", v |-> <<>>]

Init ==
    /\ kind \in {"raw", "eager"}
    /\ \E tail \in Tails :
         \/ /\ wire \in SeqsUpTo(BasicWires, MaxRecords)
            /\ stream = Flatten([k \in 1..Len(wire) |-> Frame(wire[k])]) \o tail
            /\ header = TheHeader
         \/ /\ tail = <<>>
            /\ wire \in {<<w>> : w \in RichWires}
            /\ stream = Frame(wire[1])
            /\ header \in IF wire[1] \in FilterWires
                          THEN {TheHeader, HeaderWithoutFilters} ELSE {TheHeader}
    /\ inner_pos = 0
    /\ calls = 0
    /\ record_buf = <<>>
    /\ last = [res |-> "start", left |-> 0]
    /\ records = <<>>
    /\ spans = <<>>
    /\ call = NoCall

\* A panic unwinds out of the caller: nothing runs after it.
Alive == last.res # "panic" /\ call.st # "panic"

\* A resize that only ever grows the buffer.
Resize_grow_only(buf, n) ==
    [k \in 1..(IF n > Len(buf) THEN n ELSE Len(buf)) |-> IF k <= Len(buf) THEN buf[k] ELSE 0]

\* Vec::resize(n, 0)
Resize(buf, n) == [k \in 1..n |-> IF k <= Len(buf) THEN buf[k] ELSE 0]

record_length(b) == <<le_u32(b, 0).v, le_u32(b, 4).v>>

\* Read::read_exact fails when fewer bytes are left than the buffer holds.
ReadExactFails(left, n) == left < n

\* A reader that a failed read_exact leaves rewound to the start.
AfterFailedRead_rewound(p, len) == {0}

\* Where a failed read_exact leaves the reader: where it was (nothing
\* consumed) or at the end of the stream (all of it consumed).
AfterFailedRead(p, len) == {p, len}

\* Records that borrow the stream's buffer: each of them reads the bytes of
\* the record read last.
Yielded_borrowing(recs, rec) == [k \in 1..(Len(recs) + 1) |-> rec]

\* Some(record): the record, built on copies of the two blocks (to_vec), is
\* the caller's, next to those yielded before.
Yielded(recs, rec) == Append(recs, rec)

\* A copy of the header that shares nothing with the stream's.
header_clone_deep(h) == [h EXCEPT !.contigs = <<>>, !.filters = <<>>]

\* self.header.clone() on an Rc: the record is given the stream's header.
header_clone(h) == h

\* The record constructor each driver calls on the filled buffer.
decode(driver, l_shared, l_indiv, buf) ==
    IF driver = "eager" THEN record_from_length(l_shared, l_indiv, buf)
    ELSE raw_record_from_length(l_shared, l_indiv, buf)

\* The frame of next(), common to both drivers: the length prefix, the
\* resize, the read of the record bytes and the record constructor.  A
\* read_exact that meets the end of the stream fails and leaves the reader
\* where it was or at the end.
NextWith(driver) ==
    /\ Alive
    /\ calls < MaxCalls
    /\ calls' = calls + 1
    /\ UNCHANGED <<kind, header, wire, stream, call>>
    /\ LET left == Len(stream) - inner_pos IN
       IF ReadExactFails(left, 8)
       THEN /\ last' = [res |-> "none", left |-> left]
            /\ inner_pos' \in AfterFailedRead(inner_pos, Len(stream))
            /\ UNCHANGED <<record_buf, records, spans>>
       ELSE LET len == record_length(Take(stream, inner_pos, 8))
                total == len[1] + len[2]
            IN IF ReadExactFails(left - 8, total)
               THEN /\ last' = [res |-> "panic", left |-> left]
                    /\ inner_pos' \in AfterFailedRead(inner_pos + 8, Len(stream))
                    /\ record_buf' = Resize(record_buf, total)
                    /\ UNCHANGED <<records, spans>>
               ELSE \E buf \in {Take(stream, inner_pos + 8, total)} :
                    \E rec \in {decode(driver, len[1], len[2], buf)} :
                       /\ inner_pos' = inner_pos + 8 + total
                       /\ record_buf' = buf
                       /\ IF rec.st # "ok"
                          THEN /\ last' = [res |-> "panic", left |-> left]
                               /\ UNCHANGED <<records, spans>>
                          ELSE /\ last' = [res |-> "some", left |-> left]
                               /\ records' = Yielded(records, rec.v)
                               /\ spans' = Append(spans,
                                     [from |-> inner_pos, to |-> inner_pos + 8 + total,
                                      header |-> header_clone(header)])

\* BcfRecords::next
NextEager == kind = "eager" /\ NextWith("eager")

\* RawBcfRecords::next
NextRaw == kind = "raw" /\ NextWith("raw")

\* An accessor of a yielded lazy record is called and its result kept.
Called(op, k, tag, res) ==
    /\ \E r \in {res} : call' = [op |-> op, rec |-> k, tag |-> tag, st |-> r.st, v |-> r.v]
    /\ UNCHANGED <<kind, header, wire, stream, inner_pos, calls, record_buf, last,
                   records, spans>>

CanCall == Alive /\ kind = "raw"

CallId == CanCall /\ \E k \in 1..Len(records) : Called("id", k, "", id(records[k]))

CallChrom ==
    CanCall /\ \E k \in 1..Len(records) : Called("chrom", k, "", chrom(records[k], spans[k].header))

CallPos == CanCall /\ \E k \in 1..Len(records) : Called("pos", k, "", record_pos(records[k]))

CallRefAllele ==
    CanCall /\ \E k \in 1..Len(records) :
        Called("ref_allele", k, "", ref_allele(records[k]))

CallAltAlleles ==
    CanCall /\ \E k \in 1..Len(records) :
        Called("alt_alleles", k, "", alt_alleles(records[k]))

CallQual == CanCall /\ \E k \in 1..Len(records) : Called("qual", k, "", qual(records[k]))

CallFilters ==
    CanCall /\ \E k \in 1..Len(records) :
        Called("filters", k, "", filters(records[k], spans[k].header))

CallInfo ==
    CanCall /\ \E k \in 1..Len(records), tag \in Tags :
        Called("info", k, tag, record_info(records[k], spans[k].header, tag))

CallHasFlag ==
    CanCall /\ \E k \in 1..Len(records), tag \in Tags :
        Called("has_flag", k, tag, has_flag(records[k], spans[k].header, tag))

CallFormat ==
    CanCall /\ \E k \in 1..Len(records), tag \in FmtTags :
        Called("format", k, tag, record_format(records[k], spans[k].header, tag))

CallGenotypes ==
    CanCall /\ \E k \in 1..Len(records) :
        Called("genotypes", k, "", genotypes(records[k], spans[k].header))

Next ==
    \/ NextEager
    \/ NextRaw
    \/ CallId
    \/ CallChrom
    \/ CallPos
    \/ CallRefAllele
    \/ CallAltAlleles
    \/ CallQual
    \/ CallFilters
    \/ CallInfo
    \/ CallHasFlag
    \/ CallFormat
    \/ CallGenotypes

Spec == Init /\ [][Next]_vars

----------------------------------------------------------------------------
(* The typed vector codec on its own: one typed integer vector on the wire, *)
(* decoded by the eager decoder and by the two steps of the lazy one.       *)

MaxElems == 2

\* Per width: zero, small, the extremes, the missing and end-of-vector
\* sentinels, and an element whose low byte only is 0x81.
ElemBytes(k) ==
    IF k = KInt8 THEN {<<0>>, <<1>>, <<127>>, <<128>>, <<129>>, <<255>>}
    ELSE IF k = KInt16
         THEN {<<1, 0>>, <<255, 255>>, <<1, 128>>, <<129, 0>>, <<0, 128>>, <<255, 127>>}
    ELSE {<<1, 0, 0, 0>>, <<255, 255, 255, 255>>, <<1, 0, 0, 128>>, <<129, 0, 0, 0>>,
          <<0, 0, 0, 128>>, <<255, 255, 255, 127>>}

InitCodec ==
    /\ kind = "codec"
    /\ header = TheHeader
    /\ wire = <<>>
    /\ \E k \in {KInt8, KInt16, KInt32} :
         \E elems \in SeqsUpTo(ElemBytes(k), MaxElems) :
            stream = EncTD(k, Len(elems)) \o Flatten(elems)
    /\ inner_pos = 0
    /\ calls = 0
    /\ record_buf = <<>>
    /\ last = [res |-> "start", left |-> 0]
    /\ records = <<>>
    /\ spans = <<>>
    /\ call = NoCall

\* The lazy decoder's value of a typed vector: raw_vec_from_td, then into().
lazy_typed_vec(td, b, i) ==
    AndThen(raw_vec_from_td(td, b, i), LAMBDA raw : TypedVecFromRaw(raw.v))

DecodeVec ==
    /\ kind = "codec"
    /\ call.op = "none"
    /\ \E td \in {type_descriptor(stream, 0)} :
       \E eager \in {typed_vec_from_td(td.v, stream, td.i)} :
       \E lazy \in {lazy_typed_vec(td.v, stream, td.i)} :
          call' = [op |-> "typed_vec", rec |-> 0, tag |-> "", st |-> "ok",
                   v |-> [td |-> td.v, eager |-> eager, lazy |-> lazy]]
    /\ UNCHANGED <<kind, header, wire, stream, inner_pos, calls, record_buf, last,
                   records, spans>>

NextCodec == DecodeVec

SpecCodec == InitCodec /\ [][NextCodec]_vars

----------------------------------------------------------------------------
(* The type descriptor decoder on its own.                                 *)

\* What follows a descriptor byte whose high bits are 15: nothing, nested
\* descriptors of one integer of each width with its count, nested
\* descriptors that are no single integer (count 0 or 2, kinds Missing,
\* Float32, String and the reserved 4), and a nested descriptor whose own
\* count is nested.
NestedCounts ==
    { <<>>,
      <<17>>, <<17, 15>>, <<17, 200>>,
      <<18, 44>>, <<18, 44, 1>>, <<18, 255, 255>>,
      <<19, 1, 0, 0>>, <<19, 16, 0, 0, 0>>, <<19, 1, 0, 0, 1>>,
      <<1, 3>>, <<33, 3, 4>>, <<16, 3>>, <<21, 0, 0, 128, 63>>, <<23, 65>>,
      <<20, 3>>,
      <<241, 17, 1, 5>>, <<241, 17, 2, 5, 6>> }

\* Every single descriptor byte, and every kind with each nested count.
DescriptorInputs ==
    {<<byte>> : byte \in 0..255}
      \cup {<<240 + k>> \o rest : k \in 0..7, rest \in NestedCounts}

InitDescriptor ==
    /\ kind = "descriptor"
    /\ header = TheHeader
    /\ wire = <<>>
    /\ stream \in DescriptorInputs
    /\ inner_pos = 0
    /\ calls = 0
    /\ record_buf = <<>>
    /\ last = [res |-> "start", left |-> 0]
    /\ records = <<>>
    /\ spans = <<>>
    /\ call = NoCall

DecodeDescriptor ==
    /\ kind = "descriptor"
    /\ call.op = "none"
    /\ \E td \in {type_descriptor(stream, 0)} :
          call' = [op |-> "type_descriptor", rec |-> 0, tag |-> "", st |-> td.st,
                   v |-> [td |-> td.v, i |-> td.i]]
    /\ UNCHANGED <<kind, header, wire, stream, inner_pos, calls, record_buf, last,
                   records, spans>>

NextDescriptor == DecodeDescriptor

SpecDescriptor == InitDescriptor /\ [][NextDescriptor]_vars

----------------------------------------------------------------------------
(* reader.rs: the constructor.  The text of the header is not modelled:     *)
(* `wire` holds the entries header_entry parses from it, a key with the ID  *)
(* and the optional IDX of its mapping, and `stream` holds one byte of text *)
(* for each entry.                                                          *)

BCF_MAJOR_VERSION == 2

BCF_MINOR_VERSION == 2

\* tag(b"BCF") and the two version bytes
bcf_version(b) ==
    IF Len(b) < 3 \/ SubSeq(b, 1, 3) # <<66, 67, 70>> THEN Err(0)
    ELSE AndThen(le_u8(b, 3), LAMBDA major :
         AndThen(le_u8(b, major.i), LAMBDA minor :
           Ok([major |-> major.v, minor |-> minor.v], minor.i)))

header_length(b) == le_u32(b, 0)

Line(key, id_, idx_) == [key |-> key, id |-> id_, idx |-> idx_]

\* The entries of one key, in the order of the header.
OfKey(lines, key) == SelectSeq(lines, LAMBDA l : l.key = key)

\* HeaderInfo::from / HeaderFormat::from: idx is the IDX of the mapping, 0
\* when it has none.
HeaderInfoFrom(l) == [id |-> l.id, idx |-> IF l.idx.some THEN l.idx.val ELSE 0]

\* collect() into a HashMap keyed by idx: of the entries with one idx the
\* last is kept.
Dictionary(entries) ==
    LET idxs == {HeaderInfoFrom(entries[j]).idx : j \in 1..Len(entries)} IN
    [x \in idxs |->
        entries[CHOOSE j \in 1..Len(entries) :
                   /\ HeaderInfoFrom(entries[j]).idx = x
                   /\ \A l \in (j + 1)..Len(entries) :
                        HeaderInfoFrom(entries[l]).idx # x].id]

\* The keys of a dictionary in ascending order.
RECURSIVE Ascending(_)
Ascending(S) ==
    IF S = {} THEN <<>>
    ELSE LET m == CHOOSE x \in S : \A y \in S : x <= y
         IN <<m>> \o Ascending(S \ {m})

Reverse(q) == [j \in 1..Len(q) |-> q[Len(q) + 1 - j]]

\* The orders in which iter() may visit the dictionary: the order of a
\* HashMap is not specified, and of two entries either may come last.
IterationOrders(dict) == {Ascending(DOMAIN dict), Reverse(Ascending(DOMAIN dict))}

\* A reverse lookup that numbers the tags by their place in the iteration.
TagToOffset_by_position(dict, order) ==
    [t \in {dict[x] : x \in DOMAIN dict} |->
        (CHOOSE j \in 1..Len(order) : dict[order[j]] = t) - 1]

\* info.iter().map(|(idx, hi)| (hi.id.clone(), *idx)).collect(): the idx of
\* each id, that of the entry visited last when two entries have one id.
TagToOffset(dict, order) ==
    [t \in {dict[x] : x \in DOMAIN dict} |->
        order[CHOOSE j \in 1..Len(order) :
                 /\ dict[order[j]] = t
                 /\ \A l \in (j + 1)..Len(order) : dict[order[l]] # t]]

RECURSIVE IdsOf(_)
IdsOf(entries) ==
    IF entries = <<>> THEN <<>> ELSE <<entries[1].id>> \o IdsOf(Tail(entries))

\* header(): the dictionaries of INFO and FORMAT keyed by idx, their reverse
\* lookups, the contigs in order, and the FILTER entries left in meta.
header_of(lines, info_order, format_order) ==
    [contigs |-> IdsOf(OfKey(lines, "contig")),
     filters |-> IdsOf(OfKey(lines, "FILTER")),
     info_tag_to_offset |-> TagToOffset(Dictionary(OfKey(lines, "INFO")), info_order),
     format_tag_to_offset |->
        TagToOffset(Dictionary(OfKey(lines, "FORMAT")), format_order),
     info |-> Dictionary(OfKey(lines, "INFO")),
     format |-> Dictionary(OfKey(lines, "FORMAT"))]

\* BcfRecords::new / RawBcfRecords::new on the stream b, h being the header
\* parser::header makes of the text: `?` returns the reader's error, unwrap
\* and the asserts panic.
BcfRecordsNew(b, h) ==
    IF ReadExactFails(Len(b), 5) THEN Err(0)
    ELSE AndThen(Unwrap(bcf_version(Take(b, 0, 5))), LAMBDA version :
      IF version.v.major # BCF_MAJOR_VERSION THEN Panic(5)
      ELSE IF version.v.minor # BCF_MINOR_VERSION THEN Panic(5)
      ELSE IF ReadExactFails(Len(b) - 5, 4) THEN Err(5)
      ELSE AndThen(Unwrap(header_length(Take(b, 5, 4))), LAMBDA len :
        IF ReadExactFails(Len(b) - 9, len.v) THEN Err(9)
        ELSE Ok(h, 9 + len.v)))

\* The lines of TheHeader.
TheHeaderLines ==
    << Line("fileformat", "", None),
       Line("contig", "chr1", None), Line("contig", "chr2", None),
       Line("FILTER", "PASS", SomeOf(0)), Line("FILTER", "q10", SomeOf(7)),
       Line("INFO", "FLAG", SomeOf(1)), Line("INFO", "INT", SomeOf(2)),
       Line("INFO", "INT2", SomeOf(3)), Line("INFO", "FLOAT", SomeOf(4)),
       Line("INFO", "FLOAT2", SomeOf(5)), Line("INFO", "STRING", SomeOf(6)),
       Line("FORMAT", "GT", SomeOf(1)), Line("FORMAT", "DP", SomeOf(2)),
       Line("FORMAT", "GQ", SomeOf(3)) >>

\* Headers with every IDX given, with none, with some, with no line at all,
\* and with one id declared twice under two IDX values.
HeaderLists ==
    { TheHeaderLines,
      <<>>,
      << Line("INFO", "DP", None) >>,
      << Line("INFO", "DP", None), Line("INFO", "AF", None) >>,
      << Line("contig", "chr1", None), Line("FORMAT", "GT", None),
         Line("FORMAT", "DP", None), Line("INFO", "DP", SomeOf(5)) >>,
      << Line("INFO", "DP", SomeOf(3)), Line("INFO", "AF", None),
         Line("FORMAT", "GT", SomeOf(1)) >>,
      << Line("FILTER", "PASS", SomeOf(0)), Line("INFO", "AF", SomeOf(1)),
         Line("INFO", "DP", SomeOf(2)), Line("FORMAT", "DP", SomeOf(2)) >>,
      << Line("INFO", "AF", None), Line("INFO", "DP", SomeOf(1)),
         Line("INFO", "MQ", None) >>,
      << Line("INFO", "DP", SomeOf(1)), Line("INFO", "DP", SomeOf(2)),
         Line("FORMAT", "DP", SomeOf(4)), Line("FORMAT", "GT", SomeOf(1)),
         Line("FORMAT", "DP", SomeOf(0)) >> }

\* The first five bytes: BCF 2.2, other versions, other magics ("BAM\1",
\* gzip, "bcf"), and fewer than five bytes.
Preambles ==
    { <<66, 67, 70, 2, 2>>, <<66, 67, 70, 2, 1>>, <<66, 67, 70, 1, 2>>,
      <<66, 67, 70, 3, 2>>, <<66, 65, 77, 1, 0>>, <<31, 139, 8, 0, 0>>,
      <<98, 99, 102, 2, 2>>, <<66, 67>>, <<>> }

InitOpen ==
    /\ kind = "open"
    /\ header = header_of(<<>>, <<>>, <<>>)
    /\ wire \in HeaderLists
    /\ \E pre \in Preambles, cut \in {0, 1} :
         stream = pre \o LE32(Len(wire) + cut) \o [k \in 1..Len(wire) |-> 35]
    /\ inner_pos = 0
    /\ calls = 0
    /\ record_buf = <<>>
    /\ last = [res |-> "start", left |-> 0]
    /\ records = <<>>
    /\ spans = <<>>
    /\ call = NoCall

Open ==
    /\ kind = "open"
    /\ call.op = "none"
    /\ \E info_order \in IterationOrders(Dictionary(OfKey(wire, "INFO"))),
          format_order \in IterationOrders(Dictionary(OfKey(wire, "FORMAT"))) :
       \E r \in {BcfRecordsNew(stream, header_of(wire, info_order, format_order))} :
         /\ call' = [op |-> "new", rec |-> 0, tag |-> "", st |-> r.st, v |-> r.v]
         /\ header' = IF r.st = "ok" THEN r.v ELSE header
         /\ inner_pos' = r.i
    /\ UNCHANGED <<kind, wire, stream, calls, record_buf, last, records, spans>>

NextOpen == Open

SpecOpen == InitOpen /\ [][NextOpen]_vars

----------------------------------------------------------------------------
(* The column line of the header.  `wire` holds the sample names, `stream`  *)
(* the bytes of the line "#CHROM\tPOS\t...", and the names are read back    *)
(* from the bytes.                                                          *)

MaxSamples == 2

TAB == 9

NEWLINE == 10

\* The columns every record has besides its samples, FORMAT the last.
N_FIXED_COLUMNS == 9

\* "#CHROM\tPOS\tID\tREF\tALT\tQUAL\tFILTER\tINFO"
FixedColumns ==
    << <<35, 67, 72, 82, 79, 77>>, <<80, 79, 83>>, <<73, 68>>, <<82, 69, 70>>,
       <<65, 76, 84>>, <<81, 85, 65, 76>>, <<70, 73, 76, 84, 69, 82>>,
       <<73, 78, 70, 79>> >>

\* "FORMAT"
FormatColumn == <<70, 79, 82, 77, 65, 84>>

RECURSIVE JoinTabs(_)
JoinTabs(cols) ==
    IF cols = <<>> THEN <<>>
    ELSE IF Len(cols) = 1 THEN cols[1]
    ELSE cols[1] \o <<TAB>> \o JoinTabs(Tail(cols))

\* The line of a header with these samples; without samples the FORMAT
\* column may be left out.
ColumnLine(names, with_format) ==
    JoinTabs(FixedColumns \o (IF with_format THEN <<FormatColumn>> ELSE <<>>) \o names)
      \o <<NEWLINE>>

\* The columns of a line: the bytes between tabs, up to the newline.
RECURSIVE SplitTabs(_, _)
SplitTabs(b, col) ==
    IF b = <<>> \/ b[1] = NEWLINE THEN <<col>>
    ELSE IF b[1] = TAB THEN <<col>> \o SplitTabs(Tail(b), <<>>)
    ELSE SplitTabs(Tail(b), Append(col, b[1]))

\* The columns that follow the fixed columns.
sample_names_with_format(line) ==
    LET cols == SplitTabs(line, <<>>) IN
    IF Len(cols) < N_FIXED_COLUMNS THEN <<>>
    ELSE SubSeq(cols, N_FIXED_COLUMNS, Len(cols))

sample_names(line) ==
    LET cols == SplitTabs(line, <<>>) IN
    IF Len(cols) <= N_FIXED_COLUMNS THEN <<>>
    ELSE SubSeq(cols, N_FIXED_COLUMNS + 1, Len(cols))

\* "HG001", "INTEGRATION", "HG003" and short names, among them "FORMAT"
SampleNames ==
    { <<72, 71, 48, 48, 49>>, <<73, 78, 84, 69, 71, 82, 65, 84, 73, 79, 78>>,
      <<72, 71, 48, 48, 51>>, <<65>>, <<66>>, <<65, 66>>, <<78, 65, 49, 50>>,
      <<49>>, <<35, 67, 72, 82, 79, 77>>, FormatColumn, <<73, 78, 70, 79>>,
      <<83, 32, 49>> }

InitSamples ==
    /\ kind = "samples"
    /\ header = TheHeader
    /\ wire \in SeqsUpTo(SampleNames, MaxSamples)
    /\ \E with_format \in BOOLEAN :
         /\ (wire # <<>> => with_format)
         /\ stream = ColumnLine(wire, with_format)
    /\ inner_pos = 0
    /\ calls = 0
    /\ record_buf = <<>>
    /\ last = [res |-> "start", left |-> 0]
    /\ records = <<>>
    /\ spans = <<>>
    /\ call = NoCall

\* header().samples of the stream opened on the line.
ReadSamples ==
    /\ kind = "samples"
    /\ call.op = "none"
    /\ \E names \in {sample_names(stream)} :
         call' = [op |-> "samples", rec |-> 0, tag |-> "", st |-> "ok", v |-> names]
    /\ UNCHANGED <<kind, header, wire, stream, inner_pos, calls, record_buf, last,
                   records, spans>>

NextSamples == ReadSamples

SpecSamples == InitSamples /\ [][NextSamples]_vars

----------------------------------------------------------------------------
(* The typed integers of record keys and of the FILTER vector, on their own. *)

\* The 64 bits of a usize, as four 16-bit limbs from the low end: `as usize`
\* of a signed integer extends its sign, so a negative value has the two
\* high limbs all ones.
Usize64(n) ==
    << n % 65536, (n \div 65536) % 65536,
       IF n < 0 THEN 65535 ELSE 0, IF n < 0 THEN 65535 ELSE 0 >>

\* One typed value or vector: the integer vectors of the codec, a Missing
\* descriptor, and a float and a string where an integer is expected.
IntInputs ==
    UNION {{EncTD(k, Len(elems)) \o Flatten(elems) :
              elems \in SeqsUpTo(ElemBytes(k), MaxElems)} : k \in {KInt8, KInt16, KInt32}}
      \cup {<<KMissing>>, <<16 + KFloat32, 0, 0, 128, 63>>, <<16 + KString, 65>>}

InitInts ==
    /\ kind = "ints"
    /\ header = TheHeader
    /\ wire = <<>>
    /\ stream \in IntInputs
    /\ inner_pos = 0
    /\ calls = 0
    /\ record_buf = <<>>
    /\ last = [res |-> "start", left |-> 0]
    /\ records = <<>>
    /\ spans = <<>>
    /\ call = NoCall

DecodeTypedInt ==
    /\ kind = "ints"
    /\ call.op = "none"
    /\ \E r \in {typed_int(stream, 0)} :
         call' = [op |-> "typed_int", rec |-> 0, tag |-> "", st |-> r.st,
                  v |-> IF r.st = "ok" THEN Usize64(r.v) ELSE <<>>]
    /\ UNCHANGED <<kind, header, wire, stream, inner_pos, calls, record_buf, last,
                   records, spans>>

DecodeTypedInts ==
    /\ kind = "ints"
    /\ call.op = "none"
    /\ \E r \in {typed_ints(stream, 0)} :
         call' = [op |-> "typed_ints", rec |-> 0, tag |-> "", st |-> r.st,
                  v |-> IF r.st = "ok" THEN [j \in 1..Len(r.v) |-> Usize64(r.v[j])]
                        ELSE <<>>]
    /\ UNCHANGED <<kind, header, wire, stream, inner_pos, calls, record_buf, last,
                   records, spans>>

NextInts == DecodeTypedInt \/ DecodeTypedInts

SpecInts == InitInts /\ [][NextInts]_vars

----------------------------------------------------------------------------
(* What the claims are stated against.                                     *)

\* The record an accessor was last called on and its description.
CalledRecord == records[call.rec]

CalledWire == wire[call.rec]

CalledOn(op) == kind = "raw" /\ call.op = op

\* The eager decoding of the bytes a lazy record holds.
EagerOf(r) == record_from_length(Len(r.shared), Len(r.format), r.shared \o r.format)

OptEq(a, b) ==
    /\ a.some = b.some
    /\ a.some => (a.val.t = b.val.t /\ a.val.v = b.val.v)

\* The position of the first pair with the key, 0 when there is none.
FirstWith(pairs, key) ==
    IF \E j \in 1..Len(pairs) : pairs[j].key = key
    THEN CHOOSE j \in 1..Len(pairs) :
            /\ pairs[j].key = key
            /\ \A l \in 1..(j - 1) : pairs[l].key # key
    ELSE 0

\* The pair of the called record that the tag of the call names, 0 when the
\* header does not define the tag or no pair carries its idx.
WirePairOf(tag) ==
    IF tag \in DOMAIN header.info_tag_to_offset
    THEN FirstWith(CalledWire.infos, header.info_tag_to_offset[tag])
    ELSE 0

\* The payload cut into elements of w bytes.
Chunks(payload, w) ==
    [j \in 1..(Len(payload) \div w) |-> SubSeq(payload, (j - 1) * w + 1, j * w)]

\* The value of a little-endian two's complement integer: with the top bit
\* set, minus the value of the complemented bytes, minus one.
RECURSIVE Unsigned(_)
Unsigned(e) == IF e = <<>> THEN 0 ELSE e[1] + 256 * Unsigned(Tail(e))

Widen(e) ==
    IF e[Len(e)] >= 128
    THEN 0 - Unsigned([j \in 1..Len(e) |-> 255 - e[j]]) - 1
    ELSE Unsigned(e)

\* How many elements come before the first Int8 end-of-vector byte.
BeforeEOV(elems) ==
    IF \E j \in 1..Len(elems) : elems[j] = <<END_OF_VECTOR_INT_8>>
    THEN (CHOOSE j \in 1..Len(elems) :
            /\ elems[j] = <<END_OF_VECTOR_INT_8>>
            /\ \A l \in 1..(j - 1) : elems[l] # <<END_OF_VECTOR_INT_8>>) - 1
    ELSE Len(elems)

\* The typed value the description of an INFO pair stands for; an Int8
\* vector ends before its first end-of-vector byte.
WireValue(p) ==
    IF p.kind = KMissing THEN TVMissing
    ELSE IF p.kind = KFloat32 THEN TVFloat32(Chunks(p.payload, 4))
    ELSE IF p.kind = KString THEN TVUString(p.payload)
    ELSE LET elems == Chunks(p.payload, ElemSize(p.kind))
             m == IF p.kind = KInt8 THEN BeforeEOV(elems) ELSE p.n
         IN TVInt32([j \in 1..m |-> Widen(elems[j])])

----------------------------------------------------------------------------
(* C1: lazy and eager decoding agree. Whenever an accessor of a lazy record *)
(* returned and the eager decoder accepts the same bytes, the accessor's    *)
(* result is the eager record's value of that field.                        *)
C1_LazyEagerAgree ==
    (kind = "raw" /\ call.op \notin {"none", "has_flag", "genotypes"} /\ call.st = "ok") =>
      LET e == EagerOf(CalledRecord) IN
      e.st = "ok" =>
        CASE call.op = "id" -> call.v = e.v.id.val
          [] call.op = "chrom" ->
               /\ e.v.chrom \in 0..(Len(header.contigs) - 1)
               /\ call.v = header.contigs[e.v.chrom + 1]
          [] call.op = "pos" -> call.v = e.v.pos
          [] call.op = "ref_allele" -> call.v = e.v.ref_allele
          [] call.op = "alt_alleles" -> call.v = e.v.alt_alleles
          [] call.op = "qual" ->
               /\ call.v.some = e.v.qual.some
               /\ call.v.val = e.v.qual.val
          [] call.op = "filters" ->
               LET names == filter_names(e.v.filter, header) IN
               names.st = "ok" /\ call.v = names.v
          [] call.op = "info" ->
               LET idx == header.info_tag_to_offset[call.tag]
                   j == IF call.tag \in DOMAIN header.info_tag_to_offset
                        THEN FirstWith(e.v.info, idx) ELSE 0
               IN OptEq(call.v, IF j = 0 THEN None ELSE SomeOf(e.v.info[j].data))
          [] call.op = "format" ->
               LET idx == header.format_tag_to_offset[call.tag]
                   fields == IF e.v.format.some THEN e.v.format.val ELSE <<>>
                   j == IF call.tag \in DOMAIN header.format_tag_to_offset
                        THEN FirstWith(fields, idx) ELSE 0
               IN /\ call.v.some = (j # 0)
                  /\ j # 0 =>
                       /\ Len(call.v.val) = Len(fields[j].data)
                       /\ \A k \in 1..Len(call.v.val) :
                            /\ call.v.val[k].t = fields[j].data[k].t
                            /\ call.v.val[k].v = fields[j].data[k].v

(* C2: iterator exhaustion. Once next() has returned "no more records" at   *)
(* a clean end of the stream (zero bytes left), every later next() returns  *)
(* "no more records" as well: it neither yields nor panics.                 *)
C2_ExhaustedStays ==
    [][(last.res = "none" /\ last.left = 0)
          => (last'.res = "none" /\ last'.left = 0)]_vars

\* A second next() after the one that met the clean end, on a stream of at
\* least one record that ends at a frame boundary.
C2_Witness ==
    /\ last.res = "none"
    /\ last.left = 0
    /\ Len(records) >= 1
    /\ spans[Len(spans)].to = Len(stream)
    /\ calls >= Len(records) + 2

(* C3: a next() called with 1 to 7 bytes left reports a truncation error,   *)
(* and it reports the normal end of the stream only with zero bytes left.   *)
C3_PartialPrefixIsError ==
    /\ (last.res # "start" /\ last.left \in 1..7) => last.res = "error"
    /\ last.res = "none" => last.left = 0

(* C4: framing. The k-th record the lazy driver yields comes from the k-th  *)
(* frame: its span starts where the previous one ended (the first at 0),    *)
(* covers the 8 prefix bytes and l_shared + l_indiv more, shared is the     *)
(* l_shared bytes after the prefix and indiv the l_indiv bytes after them,  *)
(* and after a yield the reader stands at the end of the last span.         *)
C4_Framing ==
    kind = "raw" =>
      /\ Len(spans) = Len(records)
      /\ \A k \in 1..Len(records) :
           LET from == spans[k].from
               l_shared == le_u32(stream, from).v
               l_indiv == le_u32(stream, from + 4).v
           IN /\ from = (IF k = 1 THEN 0 ELSE spans[k - 1].to)
              /\ spans[k].to - from = 8 + l_shared + l_indiv
              /\ records[k].shared = Take(stream, from + 8, l_shared)
              /\ records[k].format = Take(stream, from + 8 + l_shared, l_indiv)
              /\ records[k].shared = EncShared(wire[k])
              /\ records[k].format = EncIndiv(wire[k])
      /\ last.res = "some" => inner_pos = spans[Len(spans)].to

\* Two records yielded, the second with a FORMAT block.
C4_Witness ==
    /\ kind = "raw"
    /\ Len(records) = 2
    /\ last.res = "some"
    /\ Len(records[2].format) > 0
    /\ Len(records[1].shared) # Len(records[2].shared)

(* C5: for every record, ref_allele() is the first allele on the wire and   *)
(* alt_alleles() the remaining n_allele - 1 alleles in wire order.          *)
C5_Alleles ==
    /\ CalledOn("ref_allele") =>
         (call.st = "ok" /\ call.v = CalledWire.alleles[1])
    /\ CalledOn("alt_alleles") =>
         /\ call.st = "ok"
         /\ Len(call.v) = n_alleles(CalledRecord) - 1
         /\ call.v = Tail(CalledWire.alleles)

(* C6: qual() is absent exactly when the raw bits are 0x7F800001, and for   *)
(* every other pattern it is present with the raw bits as its value.        *)
C6_QualAbsentIffMissing ==
    CalledOn("qual") =>
      LET bits == Take(CalledRecord.shared, QUAL_START, 4) IN
      /\ call.st = "ok"
      /\ (~call.v.some) <=> (bits = MISSING_FLOAT)
      /\ call.v.some => call.v.val = bits

(* C7: info(tag) returns the value of the first INFO pair, in wire order,   *)
(* whose key is the header's idx of the tag, and absent when the header     *)
(* does not define the tag or no pair of the record carries its idx.        *)
C7_InfoFirstMatch ==
    CalledOn("info") =>
      LET j == WirePairOf(call.tag) IN
      /\ call.st = "ok"
      /\ OptEq(call.v, IF j = 0 THEN None ELSE SomeOf(WireValue(CalledWire.infos[j])))

(* C8: has_flag(t) is true for a record that carries the key of t, whatever *)
(* the payload of the pair, and false for one that does not.                *)
C8_HasFlag ==
    CalledOn("has_flag") =>
      /\ call.st = "ok"
      /\ call.v = (WirePairOf(call.tag) # 0)

\* The elements of the decoded vector.
VecElems == Chunks(SubSeqFrom(stream, 1), ElemSize(call.v.td.kind))

Widened(n) == TVInt32([j \in 1..n |-> Widen(VecElems[j])])

C10_FloatInfo ==
    CalledOn("info") =>
      LET j == WirePairOf(call.tag) IN
      (j # 0 /\ CalledWire.infos[j].kind = KFloat32 /\ call.st = "ok") =>
        /\ call.v.some
        /\ call.v.val.t = "Float32"
        /\ Len(call.v.val.v) = CalledWire.infos[j].n
        /\ call.v.val.v = Chunks(CalledWire.infos[j].payload, 4)

\* The FORMAT field of the called record that the tag names, 0 when the
\* indiv block is empty, the header does not define the tag or no field
\* carries its idx.
FmtFieldOf(tag) ==
    IF tag \in DOMAIN header.format_tag_to_offset
    THEN FirstWith(CalledWire.fmts, header.format_tag_to_offset[tag])
    ELSE 0

\* The description of a FORMAT field cut down to the payload of sample s.
SampleOf(p, s, n_sample) ==
    LET w == Len(p.payload) \div n_sample IN
    [p EXCEPT !.payload = SubSeq(p.payload, (s - 1) * w + 1, s * w)]

(* C11: format(tag) returns, for the first FORMAT field in wire order whose *)
(* key is the header's idx of the tag, exactly n_sample values, the s-th    *)
(* being the value of the s-th sample's payload; it returns absent when the *)
(* indiv block is empty, the tag is not in the header or no field carries   *)
(* its key.                                                                 *)
C11_Format ==
    CalledOn("format") =>
      LET j == FmtFieldOf(call.tag)
          n_sample == CalledWire.n_sample
      IN /\ call.st = "ok"
         /\ call.v.some = (j # 0)
         /\ j # 0 =>
              /\ Len(call.v.val) = n_sample
              /\ \A s \in 1..n_sample :
                   LET want == WireValue(SampleOf(CalledWire.fmts[j], s, n_sample)) IN
                   /\ call.v.val[s].t = want.t
                   /\ call.v.val[s].v = want.v

\* What the claim says of one encoded integer e and its decoded allele a.
GenotypeAs(e, a) ==
    /\ a.g \in {"Unphased", "Phased", "UnphasedMissing", "PhasedMissing"}
    /\ e = 0 => a.g = "UnphasedMissing"
    /\ e = 1 => a.g = "PhasedMissing"
    /\ (e >= 2 /\ e % 2 = 0) => a = [g |-> "Unphased", i |-> (e - 2) \div 2]
    /\ (e >= 3 /\ e % 2 = 1) => a = [g |-> "Phased", i |-> (e - 3) \div 2]
    /\ index(a).some <=> a.g \in {"Unphased", "Phased"}
    /\ index(a).some => index(a).val = a.i

(* C12: genotypes() returns one list per sample of the GT field, empty when *)
(* GT is absent; each encoded integer e is decoded without a panic, 0 as    *)
(* UnphasedMissing, 1 as PhasedMissing, even e >= 2 as Unphased(e/2 - 1),   *)
(* odd e >= 3 as Phased((e-1)/2 - 1); index() is None exactly for the two   *)
(* missing variants.                                                        *)
C12_Genotypes ==
    CalledOn("genotypes") =>
      LET j == FmtFieldOf("GT")
          n_sample == CalledWire.n_sample
      IN /\ call.st = "ok"
         /\ Len(call.v) = (IF j = 0 THEN 0 ELSE n_sample)
         /\ j # 0 =>
              \A s \in 1..n_sample :
                 LET es == WireValue(SampleOf(CalledWire.fmts[j], s, n_sample)).v IN
                 /\ Len(call.v[s]) = Len(es)
                 /\ \A k \in 1..Len(es) : GenotypeAs(es[k], call.v[s][k])

\* Two samples: 0 before the end-of-vector padding, then the phased missing
\* allele followed by 0 phased.
C12_Witness ==
    /\ CalledOn("genotypes")
    /\ call.st = "ok"
    /\ Len(call.v) = 2
    /\ call.v[1] = << [g |-> "Unphased", i |-> 0] >>
    /\ call.v[2] = << [g |-> "PhasedMissing", i |-> 0], [g |-> "Phased", i |-> 0] >>

\* The two halves of the descriptor byte that was decoded.
LowBits == stream[1] % 16

HighBits == stream[1] \div 16

(* C13: the low 4 bits of the descriptor byte give the kind by the fixed    *)
(* table and the high 4 bits num_elements; a kind outside the table (4, 6,  *)
(* 8..15) is a decode error returned to the caller, not a panic.            *)
C13_KindTable ==
    call.op = "type_descriptor" =>
      /\ (LowBits \in {0, 1, 2, 3, 5, 7} /\ HighBits # 15) =>
           /\ call.st = "ok"
           /\ call.v.td = [kind |-> LowBits, num_elements |-> HighBits]
           /\ call.v.i = 1
      /\ LowBits \notin {0, 1, 2, 3, 5, 7} => call.st = "err"

\* The nested descriptor byte, its two halves and the width it announces.
NestedKind == stream[2] % 16

NestedNum == stream[2] \div 16

NestedWidth == IF NestedKind = 1 THEN 1 ELSE IF NestedKind = 2 THEN 2 ELSE 4

(* C14: with the high 4 bits at 15 the nested descriptor must describe one  *)
(* integer (count 1, kind Int8/Int16/Int32); that integer is read as an     *)
(* unsigned little-endian count of its width, the result has the outer      *)
(* kind and that count and 1 + 1 + width bytes are consumed; a nested       *)
(* descriptor that is not a single integer is a decode error.               *)
C14_NestedCount ==
    (call.op = "type_descriptor" /\ HighBits = 15 /\ Len(stream) >= 2
       /\ LowBits \in {0, 1, 2, 3, 5, 7}) =>
      IF NestedNum = 1 /\ NestedKind \in {1, 2, 3}
      THEN Len(stream) >= 2 + NestedWidth =>
             /\ call.st = "ok"
             /\ call.v.td.kind = LowBits
             /\ call.v.td.num_elements = Unsigned(SubSeq(stream, 3, 2 + NestedWidth))
             /\ call.v.i = 2 + NestedWidth
      ELSE call.st = "err"

(* C15: opening a stream whose first three bytes are not "BCF", or whose   *)
(* two version bytes are not (2, 2), fails with an error value returned     *)
(* from the constructor: no stream is produced and there is no panic.       *)
C15_BadMagicIsError ==
    (call.op = "new" /\ Len(stream) >= 5
       /\ (SubSeq(stream, 1, 3) # <<66, 67, 70>> \/ SubSeq(stream, 4, 5) # <<2, 2>>)) =>
      call.st = "err"

\* The entries of one dictionary and the handles the header gives them.
DeclaredIn(key) == OfKey(wire, key)

HandlesOf(key) ==
    IF key = "INFO" THEN header.info_tag_to_offset ELSE header.format_tag_to_offset

(* C18: per dictionary (INFO, FORMAT) every declared line is present, an    *)
(* explicit IDX is the line's handle, no two distinct lines have the same   *)
(* handle, and in a dictionary without any IDX the lines get the handles    *)
(* 0, 1, 2, ... in order of appearance.                                     *)
C18_IdxDenseUnique ==
    (call.op = "new" /\ call.st = "ok") =>
      \A key \in {"INFO", "FORMAT"} :
        LET L == DeclaredIn(key)
            handles == HandlesOf(key)
        IN /\ \A j \in 1..Len(L) : L[j].id \in DOMAIN handles
           /\ \A j \in 1..Len(L) : L[j].idx.some => handles[L[j].id] = L[j].idx.val
           /\ \A j, l \in 1..Len(L) : j # l => handles[L[j].id] # handles[L[l].id]
           /\ (\A j \in 1..Len(L) : ~L[j].idx.some) =>
                 \A j \in 1..Len(L) : handles[L[j].id] = j - 1

\* Where the last next() started, and the lengths of the prefix it read.
LastStart == Len(stream) - last.left

LastTotal == le_u32(stream, LastStart).v + le_u32(stream, LastStart + 4).v

\* The last next() read a whole prefix and met the end of the stream in the
\* bytes of the record.
TruncatedBody ==
    /\ last.res # "start"
    /\ last.left >= 8
    /\ last.left - 8 < LastTotal

(* C16: a next() that reads a complete 8-byte prefix followed by fewer than *)
(* l_shared + l_indiv bytes reports a truncation error at that call and     *)
(* does not panic, and the records yielded before it are still the records  *)
(* of their frames.                                                         *)
C16_TruncatedBodyIsError ==
    TruncatedBody =>
      /\ last.res = "error"
      /\ \A k \in 1..Len(records) :
           records[k] = decode(kind, le_u32(stream, spans[k].from).v,
                               le_u32(stream, spans[k].from + 4).v,
                               Take(stream, spans[k].from + 8,
                                    spans[k].to - spans[k].from - 8)).v

\* The last next() failed on an error of the reader: the end of the stream
\* inside the prefix or inside the record.
ReaderFailed ==
    /\ last.res # "start"
    /\ (last.left \in 1..7 \/ TruncatedBody)

(* C17: a next() that fails on an error of the reader passes the error to   *)
(* the caller, and no later next() yields a record: from a state in which   *)
(* the last next() failed on the reader (or returned "no more records"      *)
(* after it) the list of yielded records does not grow.                     *)
C17_AbortOnReaderError ==
    /\ [](ReaderFailed => last.res = "error")
    /\ [][(ReaderFailed \/ last.res = "none") => records' = records]_vars

\* The indices of the called record's FILTER vector as written on the wire.
WireFilters == IF CalledWire.filter_kind = KMissing THEN <<>> ELSE CalledWire.filters

(* C19: filters() returns, for each index of the record's FILTER vector in  *)
(* wire order, the id of the FILTER line at that position of the header,    *)
(* and the empty list for a vector that is Missing or has no element.       *)
C19_FiltersByPosition ==
    (/\ CalledOn("filters")
     /\ \A j \in 1..Len(WireFilters) : WireFilters[j] \in 0..(Len(header.filters) - 1)) =>
      /\ call.st = "ok"
      /\ Len(call.v) = Len(WireFilters)
      /\ \A j \in 1..Len(WireFilters) : call.v[j] = header.filters[WireFilters[j] + 1]

(* C20: chrom() on a record whose contig index is not one of the header's   *)
(* and filters() on a record with a filter index that is not one of the     *)
(* header's report an error and do not panic; chrom() on an index in range  *)
(* returns the id of the contig at that position of the header.             *)
C20_IndexOutOfBounds ==
    /\ CalledOn("chrom") =>
         IF CalledWire.chrom \in 0..(Len(header.contigs) - 1)
         THEN call.st = "ok" /\ call.v = header.contigs[CalledWire.chrom + 1]
         ELSE call.st = "err"
    /\ (/\ CalledOn("filters")
        /\ \E j \in 1..Len(WireFilters) :
              WireFilters[j] \notin 0..(Len(header.filters) - 1)) =>
         call.st = "err"

(* C21: header().samples is the list of the tab-separated column names of  *)
(* the #CHROM line that follow FORMAT, in their order, and is empty when    *)
(* the line has no sample column.                                           *)
C21_Samples ==
    call.op = "samples" => (call.st = "ok" /\ call.v = wire)

\* Two different samples read back.
C21_Witness ==
    /\ call.op = "samples"
    /\ Len(call.v) = 2
    /\ call.v[1] # call.v[2]
    /\ call.v[2] = <<72, 71, 48, 48, 51>>

(* C22: the header made when the stream is opened is never modified by     *)
(* next() or by an accessor, and every record the stream has yielded        *)
(* refers to that header.                                                   *)
C22_HeaderShared ==
    /\ [][header' = header]_vars
    /\ [](\A k \in 1..Len(spans) : spans[k].header = header)

\* Two records yielded and an accessor that reads the header called on the
\* first of them after the second was yielded.
C22_Witness ==
    /\ Len(records) = 2
    /\ call.op = "chrom"
    /\ call.rec = 1
    /\ call.st = "ok"
    /\ spans[2].header = header

(* C23: the id of a record is the bytes of the typed string at offset 24   *)
(* of the shared block; id() of a lazy record returns them, the empty       *)
(* string for an absent id, and an eager record stores an id value if and   *)
(* only if the typed string is not zero-length.                             *)
C23_Id ==
    /\ CalledOn("id") => (call.st = "ok" /\ call.v = CalledWire.id)
    /\ kind = "eager" =>
         \A k \in 1..Len(records) :
            /\ records[k].id.some <=> wire[k].id # <<>>
            /\ records[k].id.some => records[k].id.val = wire[k].id

(* C24: decoding a type descriptor recurses at most one level: an input    *)
(* whose first byte has a count of 15 and whose nested descriptor byte has  *)
(* a count of 15 as well is rejected with an error, not decoded by a        *)
(* further nested read.                                                     *)
C24_RecursionBounded ==
    (/\ kind = "descriptor"
     /\ call.op = "type_descriptor"
     /\ Len(stream) >= 2
     /\ stream[1] \div 16 = 15
     /\ stream[2] \div 16 = 15) =>
      call.st = "err"

(* C25: the allele offset of a lazy record is the byte position right after *)
(* the whole id typed string, whatever the id's length, so that the         *)
(* accessors that start there find the first allele: ref_allele() and       *)
(* alt_alleles() return the alleles of the wire.                            *)
C25_AlleleOffset ==
    kind = "raw" =>
      /\ \A k \in 1..Len(records) :
           records[k].allele_start_bytepos = ID_START + Len(EncString(wire[k].id))
      /\ CalledOn("ref_allele") => (call.st = "ok" /\ call.v = CalledWire.alleles[1])
      /\ CalledOn("alt_alleles") =>
           (call.st = "ok" /\ call.v = Tail(CalledWire.alleles))

\* The descriptor and the elements of the typed integer input.
IntKind == stream[1] % 16

IntCount == stream[1] \div 16

IntElems == Chunks(SubSeqFrom(stream, 1), ElemSize(IntKind))

\* The returned 64 bits are the number n: no usize is a negative n, and the
\* usize of a number below 2^31 has its high limbs zero.
IsNumber(u, n) == n >= 0 /\ u = <<n % 65536, n \div 65536, 0, 0>>

(* C26: the typed-int reader returns the value of the on-disk Int8, Int16   *)
(* or Int32 integer with its sign (never a large positive number for a      *)
(* negative one), and the typed-int-vector reader returns the empty list    *)
(* for a Missing descriptor and otherwise the num_elements values, each     *)
(* with its sign.                                                           *)
C26_SignPreserved ==
    /\ (call.op = "typed_int" /\ IntKind \in {KInt8, KInt16, KInt32} /\ IntCount = 1) =>
         /\ call.st = "ok"
         /\ IsNumber(call.v, Widen(IntElems[1]))
    /\ (call.op = "typed_ints" /\ IntKind = KMissing) =>
         (call.st = "ok" /\ call.v = <<>>)
    /\ (call.op = "typed_ints" /\ IntKind \in {KInt8, KInt16, KInt32}) =>
         /\ call.st = "ok"
         /\ Len(call.v) = IntCount
         /\ \A j \in 1..IntCount : IsNumber(call.v[j], Widen(IntElems[j]))

\* The size l_shared + l_indiv of the k-th record yielded.
SizeOf(k) == spans[k].to - spans[k].from - 8

(* C27 as stated: the size of the stream's record buffer never decreases    *)
(* and, after each next() that yields, is the size l_shared + l_indiv of    *)
(* the largest record seen so far.                                          *)
C27_BufferGrowsToLargest ==
    /\ [](last.res = "some" =>
            /\ \A k \in 1..Len(spans) : Len(record_buf) >= SizeOf(k)
            /\ \E k \in 1..Len(spans) : Len(record_buf) = SizeOf(k))
    /\ [][Len(record_buf') >= Len(record_buf)]_vars

(* C27 as amended: a next() that reads a whole length prefix leaves the      *)
(* buffer at exactly the size l_shared + l_indiv of that prefix, smaller    *)
(* than before when the record is smaller than the previous one; a next()   *)
(* that reads no whole prefix and the accessors leave the buffer as it is.  *)
C27_BufferIsLastRecord ==
    /\ []((last.res # "start" /\ last.left >= 8) => Len(record_buf) = LastTotal)
    /\ [][(calls' = calls \/ Len(stream) - inner_pos < 8) => record_buf' = record_buf]_vars

\* A smaller record was read after a larger one and the buffer shrank,
\* and a third next() met the end of the stream.
C27_Witness ==
    /\ Len(records) = 2
    /\ SizeOf(2) < SizeOf(1)
    /\ Len(record_buf) = SizeOf(2)
    /\ calls = 3
    /\ last.res = "none"

\* The end-of-vector sentinel of a kind, as the bytes of one element.
EndOfVector(k) ==
    IF k = KInt8 THEN <<END_OF_VECTOR_INT_8>>
    ELSE IF k = KInt16 THEN END_OF_VECTOR_INT_16
    ELSE IF k = KInt32 THEN END_OF_VECTOR_INT_32
    ELSE END_OF_VECTOR_FLOAT_32

\* How many of the elements come before the trailing run of sentinels.
RECURSIVE BeforePadding(_, _)
BeforePadding(elems, eov) ==
    IF elems = <<>> \/ elems[Len(elems)] # eov THEN Len(elems)
    ELSE BeforePadding(SubSeq(elems, 1, Len(elems) - 1), eov)

(* C28: a per-sample FORMAT vector of Int8, Int16, Int32 or Float32 whose    *)
(* payload ends in end-of-vector sentinels of its width is returned by      *)
(* format(tag) as the values before the padding, in order, none of them a   *)
(* sentinel.                                                                *)
C28_PaddingStripped ==
    CalledOn("format") =>
      LET j == FmtFieldOf(call.tag)
          n_sample == CalledWire.n_sample
      IN (j # 0 /\ CalledWire.fmts[j].kind \in {KInt8, KInt16, KInt32, KFloat32}) =>
           \A s \in 1..n_sample :
              LET p == SampleOf(CalledWire.fmts[j], s, n_sample)
                  elems == Chunks(p.payload, ElemSize(p.kind))
                  m == BeforePadding(elems, EndOfVector(p.kind))
              IN (/\ m < Len(elems)
                  /\ \A l \in 1..m : elems[l] # EndOfVector(p.kind)) =>
                   /\ call.st = "ok"
                   /\ call.v.val[s].t = (IF p.kind = KFloat32 THEN "Float32" ELSE "Int32")
                   /\ call.v.val[s].v =
                        [l \in 1..m |-> IF p.kind = KFloat32 THEN elems[l]
                                        ELSE Widen(elems[l])]

\* The k-th record as the lazy driver built it from its frame.
FrameRecord(k) ==
    raw_record_from_length(le_u32(stream, spans[k].from).v,
                           le_u32(stream, spans[k].from + 4).v,
                           Take(stream, spans[k].from + 8, SizeOf(k))).v

\* What an accessor returns on a record.
ResultOf(op, r, h, tag) ==
    CASE op = "id" -> id(r)
      [] op = "chrom" -> chrom(r, h)
      [] op = "pos" -> record_pos(r)
      [] op = "ref_allele" -> ref_allele(r)
      [] op = "alt_alleles" -> alt_alleles(r)
      [] op = "qual" -> qual(r)
      [] op = "filters" -> filters(r, h)
      [] op = "info" -> record_info(r, h, tag)
      [] op = "has_flag" -> has_flag(r, h, tag)
      [] op = "format" -> record_format(r, h, tag)
      [] op = "genotypes" -> genotypes(r, h)

(* C29: a yielded lazy record owns its bytes. An accessor changes nothing   *)
(* of the stream or of any record; a next() leaves every record yielded     *)
(* before it as it was; and whenever an accessor is called on a record,     *)
(* after whatever later next() calls and earlier accessor calls, its result *)
(* is the result on the record as it was built from its frame.              *)
C29_RecordOwnsBytes ==
    /\ [][calls' = calls =>
            UNCHANGED <<records, record_buf, stream, inner_pos, header, last, spans>>]_vars
    /\ [][/\ Len(records') >= Len(records)
          /\ \A k \in 1..Len(records) : records'[k] = records[k]]_vars
    /\ [](kind = "raw" /\ call.op # "none" =>
            /\ CalledRecord = FrameRecord(call.rec)
            /\ call.st = ResultOf(call.op, FrameRecord(call.rec), header, call.tag).st
            /\ call.v = ResultOf(call.op, FrameRecord(call.rec), header, call.tag).v)

\* An accessor called on the first record after a second, different record
\* was read into the stream's buffer.
C29_Witness ==
    /\ kind = "raw"
    /\ Len(records) = 2
    /\ records[1].shared # records[2].shared
    /\ record_buf = records[2].shared \o records[2].format
    /\ call.op = "alt_alleles"
    /\ call.rec = 1
    /\ call.st = "ok"
    /\ call.v = << <<65>> >>

\* The dictionary and the reverse lookup of a key in the opened header.
DictOf(key) == IF key = "INFO" THEN header.info ELSE header.format

(* C30: after parsing, for every tag t of info_tag_to_offset the entry      *)
(* info[info_tag_to_offset[t]] exists and has the id t, every entry kept in *)
(* info has its id among the tags, and the same holds of                    *)
(* format_tag_to_offset and format.                                         *)
C30_ReverseLookup ==
    (call.op = "new" /\ call.st = "ok") =>
      \A key \in {"INFO", "FORMAT"} :
        /\ \A t \in DOMAIN HandlesOf(key) :
             /\ HandlesOf(key)[t] \in DOMAIN DictOf(key)
             /\ DictOf(key)[HandlesOf(key)[t]] = t
        /\ \A x \in DOMAIN DictOf(key) : DictOf(key)[x] \in DOMAIN HandlesOf(key)

\* A header with three FORMAT entries, two of them with one id, whose
\* lookup names the second of the two, an idx that is not its position.
C30_Witness ==
    /\ call.op = "new"
    /\ call.st = "ok"
    /\ DOMAIN header.format = {0, 1, 4}
    /\ header.format_tag_to_offset["DP"] = 4
    /\ DOMAIN header.info_tag_to_offset = {"DP"}

====
